---- MODULE Spec2Model ----
(***************************************************************************)
(* Model of controllers/promise_controller.go: the Promise bootstrap       *)
(* reconciler (PromiseReconciler.Reconcile) and the per-kind resource      *)
(* request lifecycle reconciler (dynamicController.Reconcile), running     *)
(* against an object store with create / get / list / update / delete and  *)
(* optimistic-concurrency updates.                                         *)
(***************************************************************************)
EXTENDS Naturals, Sequences, FiniteSets, TLC

(***************************************************************************)
(* Bounds of the model.                                                    *)
(***************************************************************************)
\* user writes to a resource request stop once its resourceVersion is here
MaxRV == 5
\* runtime registrations of lifecycle reconcilers the manager accepts
MaxRegistrations == 2
\* Promises the platform operator applies
MaxPromises == 1
\* Work names computed side by side
MaxNamed == 2

(***************************************************************************)
(* Promises a platform operator may apply.  A Promise carries the          *)
(* embedded CRD (xaasCrd), the cluster selector, the cluster-wide          *)
(* manifests (workerClusterResources) and the request pipeline images.     *)
(***************************************************************************)
RedisPromise ==
    [name |-> "redis", namespace |-> "default",
     xaasCrd |-> [decodes |-> TRUE, group |-> "redis.opstreelabs.in",
                  version |-> "v1beta1", kind |-> "Redis", plural |-> "redis"],
     clusterSelector |-> {<<"env", "dev">>},
     workerClusterResources |-> <<"redis-crd", "a-non-crd-resource">>,
     xaasRequestPipeline |-> <<"imageA">>]

PostgresPromise ==
    [name |-> "postgres", namespace |-> "db-team",
     xaasCrd |-> [decodes |-> TRUE, group |-> "postgresql.dev4devs.com",
                  version |-> "v1alpha1", kind |-> "Database", plural |-> "databases"],
     clusterSelector |-> {},
     workerClusterResources |-> <<"a-non-crd-resource", "postgres-crd", "a-non-crd-resource">>,
     xaasRequestPipeline |-> <<"imageB", "imageC">>]

\* a Promise whose embedded CRD does not decode
BrokenPromise ==
    [name |-> "postgres", namespace |-> "db-team",
     xaasCrd |-> [decodes |-> FALSE, group |-> "", version |-> "", kind |-> "",
                  plural |-> ""],
     clusterSelector |-> {<<"env", "dev">>},
     workerClusterResources |-> <<"a-non-crd-resource">>,
     xaasRequestPipeline |-> <<"imageA">>]

Promises == {RedisPromise, PostgresPromise, BrokenPromise}

\* req.NamespacedName of a Promise
PromiseKey(p) == <<p.namespace, p.name>>

PromiseKeys == {PromiseKey(p) : p \in Promises}

(***************************************************************************)
(* Store operations of the bootstrap reconciler that can fail.             *)
(***************************************************************************)
\* the Promise get, the CRD create and the Work create
EarlyOps == {"get", "crd", "work"}

\* the creates of lines 156-269
ProvisionOps == {"crController", "crbController", "crPipeline", "crbPipeline",
                 "sa"}

BootOps == EarlyOps \cup ProvisionOps

\* ctrl.Result{} and ctrl.Result{RequeueAfter: 5 * time.Second}
RequeueAfterSeconds == 5

NoRequeue == 0

Result(after, err) == [requeueAfter |-> after, err |-> err]

NoResult == [requeueAfter |-> NoRequeue, err |-> "none"]

NoKey == <<>>

\* the record of the last bootstrap reconciliation, forgotten
Forgotten(last) ==
    [key |-> NoKey, healthy |-> FALSE, again |-> FALSE, at |-> "none",
     crd |-> "none", tick |-> last.tick]

\* v1alpha1.WorkerResourceReplicas: the "one per matching cluster" sentinel
WorkerResourceReplicas == "WorkerResourceReplicas"

(***************************************************************************)
(* Resource requests: instances of a Promise-declared kind.                *)
(***************************************************************************)
RequestKeys ==
    {[kind |-> "Redis", namespace |-> "default", name |-> "my-redis"],
     [kind |-> "Database", namespace |-> "default", name |-> "my-db"],
     [kind |-> "Database", namespace |-> "default", name |-> "other-db"]}

\* strings.ToLower on the kinds in scope
ToLower(kind) ==
    CASE kind = "Redis" -> "redis"
      [] kind = "Database" -> "database"
      [] OTHER -> kind

\* the cleanup finalizer as a short token
Finalizer_Short(kind) == ToLower(kind) \o "-cleanup"

\* the cleanup finalizer of a kind (line 320)
Finalizer(kind) ==
    "finalizers." \o ToLower(kind) \o ".resource-request.kratix.io/work-cleanup"

\* a finalizer owned by some other controller
OtherFinalizer == "example.com/other"

\* a key the store holds no object for; rv is the last resourceVersion used
NoObject(rv) == [present |-> FALSE, deleting |-> FALSE, finalizers |-> {}, rv |-> rv]

\* names of Promises, namespaces and resource requests: DNS labels, which
\* may contain '-'
ValidNames == {"redis", "default", "redis-default"}

\* suffixes getShortUuid may return (five characters of a uuid)
ShortUuids == {"a1b2c", "d3e4f"}


VARIABLES
    promises,        \* Promise records in the store
    crds,            \* CustomResourceDefinitions in the store (by GVK)
    restMappings,    \* GVKs the manager's REST mapper resolves
    works,           \* Work records in the store (namespace "default")
    clusterRoles,    \* names of ClusterRoles
    clusterRoleBindings, \* names of ClusterRoleBindings
    serviceAccounts, \* names of ServiceAccounts (namespace "default")
    controllers,     \* lifecycle reconcilers registered with the manager
    promiseResult,   \* what the last PromiseReconciler.Reconcile returned
    lastReconciled,  \* the last PromiseReconciler.Reconcile, while no Promise
                     \* was applied and no type propagated since: its key,
                     \* healthy (no store operation failed), again (it came
                     \* right after a healthy one of the same key), at (the
                     \* return it took), crd (the outcome of its CRD
                     \* create); tick flips at every invocation
    requests,        \* resource requests in the store, by key
    queue,           \* keys waiting in the lifecycle reconciler's work queue
    run,             \* the running dynamicController.Reconcile of each key
    requestResult,   \* what the last dynamicController.Reconcile of a key returned
    configMaps,      \* ConfigMaps in the store (namespace "default")
    pods,            \* Pods in the store (namespace "default")
    named            \* Work names computed so far, each with its producer

bootVars == <<promises, crds, restMappings, works, clusterRoles,
              clusterRoleBindings, serviceAccounts, controllers, promiseResult,
              lastReconciled, named>>

requestVars == <<requests, queue, run, requestResult, configMaps, pods>>

vars == <<promises, crds, restMappings, works, clusterRoles, clusterRoleBindings,
          serviceAccounts, controllers, promiseResult, lastReconciled, requests,
          queue, run, requestResult, configMaps, pods, named>>

(***************************************************************************)
(* PromiseReconciler.Reconcile                                             *)
(***************************************************************************)
\* crdToCreateGvk
CrdGvk(crd) == [group |-> crd.group, version |-> crd.version, kind |-> crd.kind]

\* gvkDoesNotExist with the REST mapper never consulted
gvkDoesNotExist_Never(gvk) == FALSE

\* r.gvkDoesNotExist(gvk): the REST mapper has no mapping for the GVK
gvkDoesNotExist(gvk) == gvk \notin restMappings

\* promise.Name + "-" + promise.Namespace
PromiseIdentifier(p) == p.name \o "-" \o p.namespace

\* the manifests put in front of the list instead of appended to it
RECURSIVE AppendManifests_Prepend(_, _)
AppendManifests_Prepend(manifests, resources) ==
    IF resources = <<>> THEN manifests
    ELSE AppendManifests_Prepend(<<Head(resources)>> \o manifests, Tail(resources))

\* the manifests appended one by one from promise.Spec.WorkerClusterResources
RECURSIVE AppendManifests(_, _)
AppendManifests(manifests, resources) ==
    IF resources = <<>> THEN manifests
    ELSE AppendManifests(Append(manifests, Head(resources)), Tail(resources))

\* workToCreate
WorkToCreate(p) ==
    [name |-> PromiseIdentifier(p),
     namespace |-> "default",
     replicas |-> WorkerResourceReplicas,
     clusterSelector |-> p.clusterSelector,
     manifests |-> AppendManifests(<<>>, p.workerClusterResources)]

WorkNames == {w.name : w \in works}

\* the dynamicController value handed to the manager
DynamicControllerFor(p) ==
    [gvk |-> CrdGvk(p.xaasCrd),
     promiseIdentifier |-> PromiseIdentifier(p),
     promiseClusterSelector |-> p.clusterSelector,
     xaasRequestPipeline |-> p.xaasRequestPipeline]

\* the registered lifecycle reconcilers of a kind
ControllersOf(kind) ==
    {i \in DOMAIN controllers : controllers[i].gvk.kind = kind}

\* r.Client.Create of a named object: created, or the error it returns
CreateOutcome(exists, failed) ==
    IF failed THEN "error" ELSE IF exists THEN "alreadyExists" ELSE "created"

\* Reconcile going on to RBAC and registration when the Work already exists
ReturnsAfterWorkCreate_OnlyOnError(outcome) == outcome = "error"

\* lines 146-154: Reconcile returns on any error of the Work create
ReturnsAfterWorkCreate(outcome) == outcome # "created"

\* Reconcile returns at the Promise lookup (lines 92-99)
PromiseNotRead(key, F) ==
    \/ "get" \in F
    \/ ~ \E p \in promises : PromiseKey(p) = key

\* the keys a newly started lifecycle reconciler is handed by its first list
InitialEvents(kind) ==
    {k \in RequestKeys : k.kind = kind /\ requests[k].present}

\* lines 156-288: RBAC, service account and registration, after the Work
\* create succeeded
ProvisionAndRegister(p, F) ==
    LET id == PromiseIdentifier(p) IN
    /\ clusterRoles' = clusterRoles
          \cup (IF "crController" \in F THEN {} ELSE {id \o "-promise-controller"})
          \cup (IF "crPipeline" \in F THEN {} ELSE {id \o "-promise-pipeline"})
    /\ clusterRoleBindings' = clusterRoleBindings
          \cup (IF "crbController" \in F THEN {}
                ELSE {id \o "-promise-controller-binding"})
          \cup (IF "crbPipeline" \in F THEN {}
                ELSE {id \o "-promise-pipeline-binding"})
    /\ serviceAccounts' = serviceAccounts
          \cup (IF "sa" \in F THEN {} ELSE {id \o "-sa"})
    /\ Cardinality(ControllersOf(p.xaasCrd.kind)) < MaxRegistrations
    /\ controllers' = Append(controllers, DynamicControllerFor(p))
    /\ queue' = queue \cup InitialEvents(p.xaasCrd.kind)

\* Reconcile of key returns result at the return statement named by at; crd
\* is the outcome of its CRD create, "none" if it did not get there
Returns(key, F, at, crd, result) ==
    /\ promiseResult' = result
    /\ lastReconciled' =
          [key |-> key, healthy |-> F = {},
           again |-> lastReconciled.key = key /\ lastReconciled.healthy,
           at |-> at, crd |-> crd, tick |-> ~lastReconciled.tick]

\* The whole of PromiseReconciler.Reconcile for the Promise at key, where F
\* is the set of store operations that fail in this invocation.
PromiseReconcile(key, F) ==
    /\ UNCHANGED <<promises, restMappings, requests, run, requestResult,
                   configMaps, pods, named>>
    /\ IF PromiseNotRead(key, F)
       THEN /\ Returns(key, F, "get", "none", Result(NoRequeue, "none"))
            /\ UNCHANGED <<crds, works, clusterRoles, clusterRoleBindings,
                           serviceAccounts, controllers, queue>>
       ELSE
       LET p == CHOOSE q \in promises : PromiseKey(q) = key
           gvk == CrdGvk(p.xaasCrd)
           crdOutcome == CreateOutcome(gvk \in crds, "crd" \in F)
           workOutcome == CreateOutcome(PromiseIdentifier(p) \in WorkNames,
                                        "work" \in F)
       IN
       IF ~p.xaasCrd.decodes
       THEN /\ Returns(key, F, "decode", "none", Result(NoRequeue, "none"))
            /\ UNCHANGED <<crds, works, clusterRoles, clusterRoleBindings,
                           serviceAccounts, controllers, queue>>
       ELSE
       /\ crds' = IF crdOutcome = "created" THEN crds \cup {gvk} ELSE crds
       /\ IF gvkDoesNotExist(gvk)
          THEN /\ Returns(key, F, "gate", crdOutcome, Result(RequeueAfterSeconds, "none"))
               /\ UNCHANGED <<works, clusterRoles, clusterRoleBindings,
                              serviceAccounts, controllers, queue>>
          ELSE IF ReturnsAfterWorkCreate(workOutcome)
          THEN /\ Returns(key, F, "work", crdOutcome, Result(NoRequeue, "none"))
               /\ UNCHANGED <<works, clusterRoles, clusterRoleBindings,
                              serviceAccounts, controllers, queue>>
          ELSE /\ works' = works \cup {WorkToCreate(p)}
               /\ ProvisionAndRegister(p, F)
               /\ Returns(key, F, "end", crdOutcome, Result(NoRequeue, "none"))

\* Reconcile of key, with the operations of F failing, gets as far as the
\* creates of lines 156-269
Provisions(key, F) ==
    /\ ~PromiseNotRead(key, F)
    /\ LET p == CHOOSE q \in promises : PromiseKey(q) = key IN
       /\ p.xaasCrd.decodes
       /\ ~gvkDoesNotExist(CrdGvk(p.xaasCrd))
       /\ ~ReturnsAfterWorkCreate(
              CreateOutcome(PromiseIdentifier(p) \in WorkNames, "work" \in F))

\* the failures an invocation for key can meet: an operation it does not
\* get to does not fail
BootFailures(key) ==
    UNION {{F \cup G : G \in IF Provisions(key, F)
                              THEN SUBSET ProvisionOps ELSE {{}}} :
           F \in SUBSET EarlyOps}

(***************************************************************************)
(* Environment of the bootstrap reconciler.                                *)
(***************************************************************************)
\* a platform operator applies a Promise
ApplyPromise(p) ==
    /\ ~ \E q \in promises : PromiseKey(q) = PromiseKey(p)
    /\ Cardinality(promises) < MaxPromises
    /\ promises' = promises \cup {p}
    /\ lastReconciled' = Forgotten(lastReconciled)
    /\ UNCHANGED <<crds, restMappings, works, clusterRoles, clusterRoleBindings,
                   serviceAccounts, controllers, promiseResult, named>>
    /\ UNCHANGED requestVars

\* the API server establishes a submitted CRD; the REST mapper resolves it
TypePropagates(gvk) ==
    /\ gvk \in crds
    /\ gvk \notin restMappings
    /\ restMappings' = restMappings \cup {gvk}
    /\ lastReconciled' = Forgotten(lastReconciled)
    /\ UNCHANGED <<promises, crds, works, clusterRoles, clusterRoleBindings,
                   serviceAccounts, controllers, promiseResult, named>>
    /\ UNCHANGED requestVars

(***************************************************************************)
(* The object store, as the lifecycle reconciler uses it.                  *)
(***************************************************************************)
\* the store removes an object marked for deletion once no finalizer is left
Settle(obj) ==
    IF obj.deleting /\ obj.finalizers = {} THEN NoObject(obj.rv) ELSE obj

\* an Update that overwrites whatever the store holds
UpdateOutcome_Blind(k, obj, failed) ==
    IF failed THEN "error"
    ELSE IF ~requests[k].present THEN "notFound"
    ELSE "updated"

\* r.client.Update(obj): optimistic concurrency on the resourceVersion
UpdateOutcome(k, obj, failed) ==
    IF failed THEN "error"
    ELSE IF ~requests[k].present THEN "notFound"
    ELSE IF requests[k].rv # obj.rv THEN "conflict"
    ELSE "updated"

\* what the store holds at k after a successful write of obj: a new
\* resourceVersion, the deletion mark kept as the store has it
Written(k, obj) ==
    Settle([obj EXCEPT !.rv = requests[k].rv + 1,
                       !.deleting = requests[k].deleting \/ obj.deleting])

\* a watch event for k reaches the work queue of the kind's reconciler
Enqueue(q, k) == IF ControllersOf(k.kind) # {} THEN q \cup {k} ELSE q

\* controllerutil.ContainsFinalizer / AddFinalizer / RemoveFinalizer
ContainsFinalizer(obj, f) == f \in obj.finalizers

\* the finalizer list replaced by the one token
AddFinalizer_Replace(obj, f) == [obj EXCEPT !.finalizers = {f}]

AddFinalizer(obj, f) == [obj EXCEPT !.finalizers = @ \cup {f}]

RemoveFinalizer(obj, f) == [obj EXCEPT !.finalizers = @ \ {f}]

\* labels.FormatLabels on selectors of at most one label
FormatLabels(selector) ==
    IF selector = {} THEN "<none>"
    ELSE LET kv == CHOOSE x \in selector : TRUE IN kv[1] \o "=" \o kv[2]

(***************************************************************************)
(* dynamicController.Reconcile, one step per store operation.              *)
(***************************************************************************)
\* pc: the store operation the invocation is at; obj: the record it read;
\* notFoundAt: the Work operation that reported not-found, if one did
Idle == [pc |-> "idle", obj |-> NoObject(0), notFoundAt |-> "none"]

\* the dynamicController registered for the kind of k
ControllerOf(k) == controllers[CHOOSE i \in ControllersOf(k.kind) : TRUE]

\* fmt.Sprintf("%s-%s-%s", r.promiseIdentifier, req.Namespace, req.Name)
ResourceRequestIdentifier(r, k) ==
    r.promiseIdentifier \o "-" \o k.namespace \o "-" \o k.name

\* workToCreate.Name of the Promise name in namespace (lines 134-137)
PromiseWorkName(name, namespace) ==
    WorkToCreate([name |-> name, namespace |-> namespace,
                  clusterSelector |-> {}, workerClusterResources |-> <<>>]).name

\* the Work name of a request reqNamespace/reqName under that Promise: the
\* identifier of line 306 with the promiseIdentifier of line 278
InstanceWorkName(name, namespace, reqNamespace, reqName) ==
    ResourceRequestIdentifier(
        [promiseIdentifier |->
            PromiseIdentifier([name |-> name, namespace |-> namespace])],
        [namespace |-> reqNamespace, name |-> reqName])

\* the substrate requeues on an error or a RequeueAfter
Requeue(q, k, result) ==
    IF result.err # "none" \/ result.requeueAfter # NoRequeue THEN q \cup {k} ELSE q

\* Reconcile returns result; q is the queue after this step's events
Finish(k, result, q) ==
    /\ requestResult' = [requestResult EXCEPT ![k] = result]
    /\ run' = [run EXCEPT ![k] = Idle]
    /\ queue' = Requeue(q, k, result)

\* Reconcile goes on to its next store operation
Goto(k, pc, notFoundAt) ==
    /\ run' = [run EXCEPT ![k] = [@ EXCEPT !.pc = pc, !.notFoundAt = notFoundAt]]
    /\ UNCHANGED <<requestResult, queue>>

\* the delete cascade entered without the ContainsFinalizer test
NextStep_AlwaysCleanup(obj, finalizer) ==
    IF obj.deleting THEN "getWork"
    ELSE IF ~ContainsFinalizer(obj, finalizer) THEN "addFinalizer"
    ELSE "listPods"

\* the pipeline launched without the finalizer being ensured first
NextStep_LaunchUnfinalized(obj, finalizer) ==
    IF obj.deleting
    THEN IF ContainsFinalizer(obj, finalizer) THEN "getWork" ELSE "return"
    ELSE "listPods"

\* the deletion mark ignored
NextStep_IgnoreDeletion(obj, finalizer) ==
    IF ~ContainsFinalizer(obj, finalizer) THEN "addFinalizer" ELSE "listPods"

\* the finalizer removed without the Work being looked up
NextStep_SkipWorkLookup(obj, finalizer) ==
    IF obj.deleting
    THEN IF ContainsFinalizer(obj, finalizer) THEN "removeFinalizer" ELSE "return"
    ELSE IF ~ContainsFinalizer(obj, finalizer) THEN "addFinalizer"
    ELSE "listPods"

\* lines 322-341: what Reconcile does with the record it read
NextStep(obj, finalizer) ==
    IF obj.deleting
    THEN IF ContainsFinalizer(obj, finalizer) THEN "getWork" ELSE "return"
    ELSE IF ~ContainsFinalizer(obj, finalizer) THEN "addFinalizer"
    ELSE "listPods"

\* lines 303-324: the Get of the resource request and the dispatch on it
ReconcileGet(k, failed) ==
    /\ run[k].pc = "idle"
    /\ k \in queue
    /\ ControllersOf(k.kind) # {}
    /\ UNCHANGED <<bootVars, requests, configMaps, pods>>
    /\ LET obj == requests[k]
           step == NextStep(obj, Finalizer(k.kind))
       IN
       IF failed \/ ~obj.present
       THEN Finish(k, Result(NoRequeue, "none"), queue \ {k})
       ELSE IF step = "return"
       THEN Finish(k, Result(RequeueAfterSeconds, "none"), queue \ {k})
       ELSE /\ run' = [run EXCEPT ![k] =
                          [pc |-> step, obj |-> obj, notFoundAt |-> "none"]]
            /\ queue' = queue \ {k}
            /\ UNCHANGED requestResult

\* lines 327-336: add the finalizer and update the record
AddFinalizerUpdate(k, failed) ==
    /\ run[k].pc = "addFinalizer"
    /\ UNCHANGED <<bootVars, configMaps, pods>>
    /\ LET obj == AddFinalizer(run[k].obj, Finalizer(k.kind))
           outcome == UpdateOutcome(k, obj, failed)
       IN
       IF outcome = "updated"
       THEN /\ requests' = [requests EXCEPT ![k] = Written(k, obj)]
            /\ Finish(k, Result(NoRequeue, "none"), Enqueue(queue, k))
       ELSE /\ UNCHANGED requests
            /\ Finish(k, Result(NoRequeue, outcome), queue)

\* the Pods labelled kratix-promise-resource-request-id=id
PodsOf(id) == {pod \in pods : pod.requestId = id}

\* pipelineHasExecuted with the list result ignored, either way
pipelineHasExecuted_Never(id, listing) == FALSE

pipelineHasExecuted_Always(id, listing) == TRUE

\* pipelineHasExecuted taking a failed list for "has executed"
pipelineHasExecuted_ErrorMeansRun(id, listing) ==
    IF listing = "error" THEN TRUE
    ELSE LET items == IF listing = "ok" THEN PodsOf(id) ELSE {}
         IN Cardinality(items) > 0

\* pipelineHasExecuted counting only the Pods that have not failed
pipelineHasExecuted_IgnoreFailed(id, listing) ==
    IF listing = "error" THEN FALSE
    ELSE LET items == IF listing = "ok"
                      THEN {pod \in PodsOf(id) : pod.phase # "Failed"} ELSE {}
         IN Cardinality(items) > 0

\* lines 478-495: listing is "ok" (every Pod created so far is observed),
\* "stale" (the Pods are not observed yet) or "error"
pipelineHasExecuted(id, listing) ==
    IF listing = "error" THEN FALSE
    ELSE LET items == IF listing = "ok" THEN PodsOf(id) ELSE {}
         IN Cardinality(items) > 0

\* lines 338-341
PipelineCheck(k, listing) ==
    /\ run[k].pc = "listPods"
    /\ listing = "stale" => PodsOf(ResourceRequestIdentifier(ControllerOf(k), k)) # {}
    /\ UNCHANGED <<bootVars, requests, configMaps, pods>>
    /\ IF pipelineHasExecuted(ResourceRequestIdentifier(ControllerOf(k), k), listing)
       THEN Finish(k, Result(NoRequeue, "none"), queue)
       ELSE Goto(k, "createConfigMap", "none")

\* the ConfigMap of lines 345-353
ConfigMapFor(r) ==
    [name |-> "cluster-selectors-" \o r.promiseIdentifier,
     selectors |-> FormatLabels(r.promiseClusterSelector)]

\* lines 462-467
CreateConfigMap(k, failed) ==
    /\ run[k].pc = "createConfigMap"
    /\ UNCHANGED <<bootVars, requests, pods>>
    /\ LET configMap == ConfigMapFor(ControllerOf(k))
           outcome == CreateOutcome(
               configMap.name \in {c.name : c \in configMaps}, failed)
       IN configMaps' = IF outcome = "created"
                        THEN configMaps \cup {configMap} ELSE configMaps
    /\ Goto(k, "createPod", "none")

\* the Pod labelled with the Promise alone
PodFor_LabelledByPromise(r, k, uuid) ==
    [name |-> "request-pipeline-" \o r.promiseIdentifier \o "-" \o uuid,
     promiseId |-> r.promiseIdentifier,
     requestId |-> r.promiseIdentifier,
     initContainers |-> <<"reader", r.xaasRequestPipeline[1]>>,
     containers |-> <<"writer">>,
     phase |-> "Pending"]

\* the Pod of lines 356-459: name, labels, and the images of its
\* InitContainers and Containers
PodFor(r, k, uuid) ==
    [name |-> "request-pipeline-" \o r.promiseIdentifier \o "-" \o uuid,
     promiseId |-> r.promiseIdentifier,
     requestId |-> ResourceRequestIdentifier(r, k),
     initContainers |-> <<"reader", r.xaasRequestPipeline[1]>>,
     containers |-> <<"writer">>,
     phase |-> "Pending"]

\* the order the stages of a Pod run in: its init containers one after the
\* other, then its containers
Stages(pod) == pod.initContainers \o pod.containers

\* the Pod create returning its error, so that the substrate retries
CreatePod_RetryOnError(k, uuid, failed) ==
    /\ run[k].pc = "createPod"
    /\ UNCHANGED <<bootVars, requests, configMaps>>
    /\ LET pod == PodFor(ControllerOf(k), k, uuid)
           outcome == CreateOutcome(pod.name \in {p.name : p \in pods}, failed)
       IN /\ pods' = IF outcome = "created" THEN pods \cup {pod} ELSE pods
          /\ Finish(k, Result(NoRequeue,
                              IF outcome = "created" THEN "none" ELSE outcome),
                    queue)

\* lines 468-475
CreatePod(k, uuid, failed) ==
    /\ run[k].pc = "createPod"
    /\ UNCHANGED <<bootVars, requests, configMaps>>
    /\ LET pod == PodFor(ControllerOf(k), k, uuid)
           outcome == CreateOutcome(pod.name \in {p.name : p \in pods}, failed)
       IN pods' = IF outcome = "created" THEN pods \cup {pod} ELSE pods
    /\ Finish(k, Result(NoRequeue, "none"), queue)

(***************************************************************************)
(* dynamicController.deleteWork                                            *)
(***************************************************************************)
\* every error of the Work lookup taken for not-found
DeleteWorkGet_AnyErrorIsNotFound(k, failed) ==
    /\ run[k].pc = "getWork"
    /\ UNCHANGED <<bootVars, requests, configMaps, pods>>
    /\ LET workName == ResourceRequestIdentifier(ControllerOf(k), k) IN
       IF failed \/ workName \notin WorkNames
       THEN Goto(k, "removeFinalizer", "get")
       ELSE Goto(k, "deleteWork", "none")

\* lines 499-515: look the Work up
DeleteWorkGet(k, failed) ==
    /\ run[k].pc = "getWork"
    /\ UNCHANGED <<bootVars, requests, configMaps, pods>>
    /\ LET workName == ResourceRequestIdentifier(ControllerOf(k), k) IN
       IF failed
       THEN Finish(k, Result(RequeueAfterSeconds, "error"), queue)
       ELSE IF workName \notin WorkNames
       THEN Goto(k, "removeFinalizer", "get")
       ELSE Goto(k, "deleteWork", "none")

\* lines 517-533: delete the Work that was found
DeleteWorkDelete(k, failed) ==
    /\ run[k].pc = "deleteWork"
    /\ UNCHANGED <<promises, crds, restMappings, clusterRoles, clusterRoleBindings,
                   serviceAccounts, controllers, promiseResult, lastReconciled,
                   named>>
    /\ UNCHANGED <<requests, configMaps, pods>>
    /\ LET workName == ResourceRequestIdentifier(ControllerOf(k), k) IN
       IF failed
       THEN /\ UNCHANGED works
            /\ Finish(k, Result(RequeueAfterSeconds, "error"), queue)
       ELSE IF workName \notin WorkNames
       THEN /\ UNCHANGED works
            /\ Goto(k, "removeFinalizer", "delete")
       ELSE /\ works' = {w \in works : w.name # workName}
            /\ Finish(k, Result(RequeueAfterSeconds, "none"), queue)

\* lines 505-514 and 519-528: the Work is not found, so remove the finalizer,
\* update the record and return the not-found error with RequeueAfter
RemoveFinalizerUpdate(k, failed) ==
    /\ run[k].pc = "removeFinalizer"
    /\ UNCHANGED <<bootVars, configMaps, pods>>
    /\ LET obj == RemoveFinalizer(run[k].obj, Finalizer(k.kind))
           outcome == UpdateOutcome(k, obj, failed)
       IN
       IF outcome = "updated"
       THEN /\ requests' = [requests EXCEPT ![k] = Written(k, obj)]
            /\ Finish(k, Result(RequeueAfterSeconds, "notFound"), Enqueue(queue, k))
       ELSE /\ UNCHANGED requests
            /\ Finish(k, Result(NoRequeue, outcome), queue)

(***************************************************************************)
(* Environment of the lifecycle reconciler: the end user, other            *)
(* controllers, the substrate's resync and the launched pipeline.          *)
(***************************************************************************)
\* the kind is served once its CRD is in the store
KindServed(kind) == \E gvk \in crds : gvk.kind = kind

\* an end user creates a resource request, with the finalizers given
CreateRequest(k, finalizers) ==
    /\ KindServed(k.kind)
    /\ ~requests[k].present
    /\ requests[k].rv < MaxRV
    /\ requests' = [requests EXCEPT ![k] =
           [present |-> TRUE, deleting |-> FALSE, finalizers |-> finalizers,
            rv |-> requests[k].rv + 1]]
    /\ queue' = Enqueue(queue, k)
    /\ UNCHANGED <<bootVars, run, requestResult, configMaps, pods>>

\* an end user changes the content of a resource request
UpdateRequest(k) ==
    /\ requests[k].present
    /\ requests[k].rv < MaxRV
    /\ requests' = [requests EXCEPT ![k] = Written(k, requests[k])]
    /\ queue' = Enqueue(queue, k)
    /\ UNCHANGED <<bootVars, run, requestResult, configMaps, pods>>

\* an end user deletes a resource request: the store marks it for deletion
DeleteRequest(k) ==
    /\ requests[k].present
    /\ ~requests[k].deleting
    /\ requests[k].rv < MaxRV
    /\ requests' = [requests EXCEPT ![k] =
           Written(k, [requests[k] EXCEPT !.deleting = TRUE])]
    /\ queue' = Enqueue(queue, k)
    /\ UNCHANGED <<bootVars, run, requestResult, configMaps, pods>>

\* the owner of the other finalizer releases it
ReleaseOtherFinalizer(k) ==
    /\ requests[k].present
    /\ requests[k].deleting
    /\ OtherFinalizer \in requests[k].finalizers
    /\ requests' = [requests EXCEPT ![k] =
           Written(k, RemoveFinalizer(requests[k], OtherFinalizer))]
    /\ queue' = Enqueue(queue, k)
    /\ UNCHANGED <<bootVars, run, requestResult, configMaps, pods>>

\* the substrate delivers the key again (resync, redelivery)
Resync(k) ==
    /\ requests[k].present
    /\ ControllersOf(k.kind) # {}
    /\ k \notin queue
    /\ queue' = queue \cup {k}
    /\ UNCHANGED <<bootVars, requests, run, requestResult, configMaps, pods>>

\* another client of the store deletes the Work of a resource request
WorkDeletedElsewhere(k) ==
    /\ ControllersOf(k.kind) # {}
    /\ ResourceRequestIdentifier(ControllerOf(k), k) \in WorkNames
    /\ works' = {w \in works :
                     w.name # ResourceRequestIdentifier(ControllerOf(k), k)}
    /\ UNCHANGED <<promises, crds, restMappings, clusterRoles, clusterRoleBindings,
                   serviceAccounts, controllers, promiseResult, lastReconciled,
                   named>>
    /\ UNCHANGED requestVars

\* the selector a flat key=value document stands for
ParseLabels(doc) ==
    CHOOSE selector \in {p.clusterSelector : p \in Promises} :
        FormatLabels(selector) = doc

\* the instance-level Work the writer step submits
InstanceWork(pod, configMap) ==
    [name |-> pod.requestId,
     namespace |-> "default",
     replicas |-> "ResourceRequestReplicas",
     clusterSelector |-> ParseLabels(configMap.selectors),
     manifests |-> <<"rendered-" \o pod.requestId>>]

\* the executor is scheduled and its stages start; its volumes need the
\* ConfigMap
PodStarts(pod) ==
    /\ pod \in pods
    /\ pod.phase = "Pending"
    /\ \E c \in configMaps : c.name = "cluster-selectors-" \o pod.promiseId
    /\ pods' = (pods \ {pod}) \cup {[pod EXCEPT !.phase = "Running"]}
    /\ UNCHANGED <<bootVars, requests, queue, run, requestResult, configMaps>>

\* the executor ends: its writer step submitted the Work, or a stage failed
PodEnds(pod, succeeded) ==
    /\ pod \in pods
    /\ pod.phase = "Running"
    /\ pods' = (pods \ {pod}) \cup
          {[pod EXCEPT !.phase = IF succeeded THEN "Succeeded" ELSE "Failed"]}
    /\ works' =
          IF succeeded /\ pod.requestId \notin WorkNames
          THEN works \cup {InstanceWork(pod,
                   CHOOSE c \in configMaps :
                       c.name = "cluster-selectors-" \o pod.promiseId)}
          ELSE works
    /\ UNCHANGED <<promises, crds, restMappings, clusterRoles, clusterRoleBindings,
                   serviceAccounts, controllers, promiseResult, lastReconciled,
                   named>>
    /\ UNCHANGED <<requests, queue, run, requestResult, configMaps>>

(***************************************************************************)
(* Specifications.                                                         *)
(***************************************************************************)
Init ==
    /\ promises = {}
    /\ crds = {}
    /\ restMappings = {}
    /\ works = {}
    /\ clusterRoles = {}
    /\ clusterRoleBindings = {}
    /\ serviceAccounts = {}
    /\ controllers = <<>>
    /\ promiseResult = NoResult
    /\ lastReconciled = Forgotten([tick |-> FALSE])
    /\ requests = [k \in RequestKeys |-> NoObject(0)]
    /\ queue = {}
    /\ run = [k \in RequestKeys |-> Idle]
    /\ requestResult = [k \in RequestKeys |-> NoResult]
    /\ configMaps = {}
    /\ pods = {}
    /\ named = {}

\* the Work names alone: names are computed for producers drawn from
\* ValidNames, MaxNamed of them at most
NamePromiseWork(name, namespace) ==
    /\ Cardinality(named) < MaxNamed
    /\ named' = named \cup
          {[producer |-> <<name, namespace>>,
            name |-> PromiseWorkName(name, namespace)]}
    /\ UNCHANGED <<promises, crds, restMappings, works, clusterRoles,
                   clusterRoleBindings, serviceAccounts, controllers,
                   promiseResult, lastReconciled>>
    /\ UNCHANGED requestVars

NameInstanceWork(name, namespace, reqNamespace, reqName) ==
    /\ Cardinality(named) < MaxNamed
    /\ named' = named \cup
          {[producer |-> <<name, namespace, reqNamespace, reqName>>,
            name |-> InstanceWorkName(name, namespace, reqNamespace, reqName)]}
    /\ UNCHANGED <<promises, crds, restMappings, works, clusterRoles,
                   clusterRoleBindings, serviceAccounts, controllers,
                   promiseResult, lastReconciled>>
    /\ UNCHANGED requestVars

NamingNext ==
    \/ \E name \in ValidNames, namespace \in ValidNames :
           NamePromiseWork(name, namespace)
    \/ \E name \in ValidNames, namespace \in ValidNames,
          reqNamespace \in ValidNames, reqName \in ValidNames :
           NameInstanceWork(name, namespace, reqNamespace, reqName)

NamingSpec == Init /\ [][NamingNext]_vars

\* the bootstrap reconciler alone, every store operation free to fail
BootNext ==
    \/ \E p \in Promises : ApplyPromise(p)
    \/ \E p \in Promises : TypePropagates(CrdGvk(p.xaasCrd))
    \/ \E key \in PromiseKeys :
           \E F \in BootFailures(key) : PromiseReconcile(key, F)

BootSpec == Init /\ [][BootNext]_vars

\* the controller process restarts: the registrations handed to the manager
\* at lines 284-286, its work queues and its running invocations are memory
\* of the process and are gone; the store keeps its objects
Restart ==
    /\ controllers # <<>>
    /\ controllers' = <<>>
    /\ queue' = {}
    /\ run' = [k \in RequestKeys |-> Idle]
    /\ promiseResult' = NoResult
    /\ lastReconciled' = Forgotten(lastReconciled)
    /\ UNCHANGED <<promises, crds, restMappings, works, clusterRoles,
                   clusterRoleBindings, serviceAccounts, named, requests,
                   requestResult, configMaps, pods>>

\* the bootstrap reconciler in a process that can restart; the Promise get,
\* the CRD create and the Work create are free to fail
RestartNext ==
    \/ \E p \in Promises : ApplyPromise(p)
    \/ \E p \in Promises : TypePropagates(CrdGvk(p.xaasCrd))
    \/ \E key \in PromiseKeys, F \in SUBSET EarlyOps : PromiseReconcile(key, F)
    \/ Restart

RestartSpec == Init /\ [][RestartNext]_vars

\* the bootstrap of one Promise on a healthy store
Bootstrap ==
    \/ ApplyPromise(RedisPromise)
    \/ TypePropagates(CrdGvk(RedisPromise.xaasCrd))
    \/ PromiseReconcile(PromiseKey(RedisPromise), {})

\* the bootstrap of a Promise with two pipeline images on a healthy store
PostgresBootstrap ==
    \/ ApplyPromise(PostgresPromise)
    \/ TypePropagates(CrdGvk(PostgresPromise.xaasCrd))
    \/ PromiseReconcile(PromiseKey(PostgresPromise), {})

\* the end user creating and changing resource requests, and the pipeline
Users(Endings) ==
    \/ \E k \in RequestKeys, f \in {{}, {OtherFinalizer}} : CreateRequest(k, f)
    \/ \E k \in RequestKeys : UpdateRequest(k)
    \/ \E pod \in pods : PodStarts(pod)
    \/ \E pod \in pods, succeeded \in Endings : PodEnds(pod, succeeded)

\* deletion by the end user, and the other actors on the store
Deleters ==
    \/ \E k \in RequestKeys : DeleteRequest(k)
    \/ \E k \in RequestKeys : ReleaseOtherFinalizer(k)
    \/ \E k \in RequestKeys : Resync(k)
    \/ \E k \in RequestKeys : WorkDeletedElsewhere(k)

\* the lifecycle reconciler on a request that is not marked for deletion;
\* Failures and Listings are the outcomes of its store operations that occur
Launch(Failures, Listings) ==
    \/ \E k \in RequestKeys, failed \in Failures : ReconcileGet(k, failed)
    \/ \E k \in RequestKeys, failed \in Failures : AddFinalizerUpdate(k, failed)
    \/ \E k \in RequestKeys, listing \in Listings : PipelineCheck(k, listing)
    \/ \E k \in RequestKeys, failed \in Failures : CreateConfigMap(k, failed)
    \/ \E k \in RequestKeys, uuid \in ShortUuids, failed \in Failures :
           CreatePod(k, uuid, failed)

\* the delete cascade of the lifecycle reconciler
Teardown(Failures) ==
    \/ \E k \in RequestKeys, failed \in Failures : DeleteWorkGet(k, failed)
    \/ \E k \in RequestKeys, failed \in Failures : DeleteWorkDelete(k, failed)
    \/ \E k \in RequestKeys, failed \in Failures : RemoveFinalizerUpdate(k, failed)

Next ==
    \/ Bootstrap
    \/ Users(BOOLEAN)
    \/ Deleters
    \/ Launch(BOOLEAN, {"ok", "stale", "error"})
    \/ Teardown(BOOLEAN)

Spec == Init /\ [][Next]_vars

\* every Pod list observes the Pods created before it
FaithfulNext ==
    \/ Bootstrap
    \/ Users(BOOLEAN)
    \/ Deleters
    \/ Launch(BOOLEAN, {"ok"})
    \/ Teardown(BOOLEAN)

FaithfulSpec == Init /\ [][FaithfulNext]_vars

\* every Pod list either observes the Pods created before it or fails
ListFailureNext ==
    \/ Bootstrap
    \/ Users(BOOLEAN)
    \/ Deleters
    \/ Launch(BOOLEAN, {"ok", "error"})
    \/ Teardown(BOOLEAN)

ListFailureSpec == Init /\ [][ListFailureNext]_vars

\* a healthy store, a pipeline that succeeds and requests that are not
\* deleted, with every reconcile event and the executor eventually served
LaunchNext == Bootstrap \/ Users({TRUE}) \/ Launch({FALSE}, {"ok"})

LaunchFairness ==
    /\ WF_vars(Launch({FALSE}, {"ok"}))
    /\ WF_vars(\E pod \in pods : PodStarts(pod))
    /\ WF_vars(\E pod \in pods : PodEnds(pod, TRUE))

LaunchSpec == Init /\ [][LaunchNext]_vars /\ LaunchFairness

\* the executor ends while its request is in the store and not marked for
\* deletion: no Work is written for a request being deleted
PodEndsBeforeDeletion(pod, succeeded) ==
    /\ \A k \in {j \in RequestKeys : ControllersOf(j.kind) # {}} :
          pod.requestId = ResourceRequestIdentifier(ControllerOf(k), k)
          => (requests[k].present /\ ~requests[k].deleting)
    /\ PodEnds(pod, succeeded)

\* the whole lifecycle with store operations free to fail, Pod lists that
\* observe earlier creates, and no Work written once deletion is requested
TeardownNext ==
    \/ Bootstrap
    \/ \E k \in RequestKeys, f \in {{}, {OtherFinalizer}} : CreateRequest(k, f)
    \/ \E k \in RequestKeys : UpdateRequest(k)
    \/ \E pod \in pods : PodStarts(pod)
    \/ \E pod \in pods, succeeded \in BOOLEAN :
           PodEndsBeforeDeletion(pod, succeeded)
    \/ Deleters
    \/ Launch(BOOLEAN, {"ok"})
    \/ Teardown(BOOLEAN)

\* the requests of the kind that Bootstrap installs
RedisKeys == {k \in RequestKeys : k.kind = RedisPromise.xaasCrd.kind}

\* a running Reconcile goes on; each store operation that is retried
\* eventually succeeds; the substrate keeps delivering the keys of the
\* objects in the store; the owner of another finalizer releases it
TeardownFairness ==
    /\ WF_vars(Launch(BOOLEAN, {"ok"}) \/ Teardown(BOOLEAN))
    /\ \A k \in RedisKeys :
          /\ SF_vars(ReconcileGet(k, FALSE))
          /\ SF_vars(DeleteWorkGet(k, FALSE))
          /\ SF_vars(DeleteWorkDelete(k, FALSE))
          /\ SF_vars(RemoveFinalizerUpdate(k, FALSE))
          /\ WF_vars(Resync(k))
          /\ WF_vars(ReleaseOtherFinalizer(k))

TeardownSpec == Init /\ [][TeardownNext]_vars /\ TeardownFairness

\* the launches for the resource requests of one Promise, store operations
\* free to fail and Pod lists free to miss Pods
PipelineNext ==
    \/ PostgresBootstrap
    \/ \E k \in RequestKeys : CreateRequest(k, {})
    \/ \E k \in RequestKeys : Resync(k)
    \/ Launch(BOOLEAN, {"ok", "stale", "error"})

PipelineSpec == Init /\ [][PipelineNext]_vars

(***************************************************************************)
(* Properties.                                                             *)
(***************************************************************************)
\* the cleanup finalizer is on the stored record of k
Finalized(k) ==
    requests[k].present /\ ContainsFinalizer(requests[k], Finalizer(k.kind))

\* <promise-name>-<promise-namespace>-<request-namespace>-<request-name>
\* under the Promise that declares the kind of k
InstanceWorkNames(k) ==
    {p.name \o "-" \o p.namespace \o "-" \o k.namespace \o "-" \o k.name :
        p \in {q \in promises : q.xaasCrd.kind = k.kind}}

\* a Work named after k is in the store
HasWork(k) == InstanceWorkNames(k) \cap WorkNames # {}

\* the executor Pods labelled with the identifier of k
ExecutorsOf(k) == {pod \in pods : pod.requestId \in InstanceWorkNames(k)}

PodNames == {pod.name : pod \in pods}

\* C1: with every Pod list observing the Pods created before it, no number
\* of reconciliations leaves more than one executor Pod labelled with the
\* identifier of one resource request.
AtMostOnePipelineLaunch ==
    \A k \in RequestKeys : Cardinality(ExecutorsOf(k)) <= 1

\* a reconciliation of a finalized request is at its Pod list while the
\* executor of an earlier reconciliation exists
RelistAfterLaunch ==
    \E k \in RequestKeys :
        /\ run[k].pc = "listPods"
        /\ ~run[k].obj.deleting
        /\ Cardinality(ExecutorsOf(k)) = 1

\* C2: a resource request that lost its cleanup finalizer after deletion was
\* requested, or that is gone from the store, never coexists with a Work
\* named after it.
FinalizerGatesDeletion ==
    \A k \in RequestKeys :
        (/\ requests[k].rv > 0
         /\ \/ ~requests[k].present
            \/ requests[k].deleting /\ ~Finalized(k))
        => ~HasWork(k)

\* a step in which the cleanup finalizer leaves the stored record of k
FinalizerLeaves(k) ==
    Finalized(k) /\ ~Finalized(k)'

\* the parts of the delete ordering that do not depend on which Work
\* operation reported not-found
DeleteOrderingCommon(k) ==
    \* the invocation that deletes the Work ends there, record untouched
    /\ ((\E failed \in BOOLEAN : DeleteWorkDelete(k, failed))
            /\ HasWork(k) /\ ~HasWork(k)')
          => (requests' = requests /\ run'[k].pc = "idle")
    \* the finalizer is taken off at the removeFinalizer step only
    /\ FinalizerLeaves(k) => run[k].pc = "removeFinalizer"
    \* that step is reached only when the store reports no Work
    /\ (run[k].pc # "removeFinalizer" /\ run'[k].pc = "removeFinalizer")
          => (~HasWork(k) /\ run[k].pc \in {"getWork", "deleteWork"})
    \* the record stays in the store while it carries the finalizer
    /\ (Finalized(k) /\ ~requests'[k].present) => FinalizerLeaves(k)

\* C3 as stated: the finalizer is removed only by an invocation whose Work
\* lookup returned not-found, never by the invocation that found the Work.
DeleteOrderingLookupOnly ==
    [][\A k \in RequestKeys :
          /\ DeleteOrderingCommon(k)
          /\ FinalizerLeaves(k) => run[k].notFoundAt = "get"]_vars

\* C3, amended: the invocation whose Work delete succeeds leaves the
\* finalizer in place; the finalizer is removed only by an invocation whose
\* Work lookup or Work delete returned not-found, and only then can the
\* record leave the store.
DeleteOrdering ==
    [][\A k \in RequestKeys :
          /\ DeleteOrderingCommon(k)
          /\ FinalizerLeaves(k) => run[k].notFoundAt \in {"get", "delete"}]_vars

\* the last reconciliation of a finalized request marked for deletion
\* deleted its Work and left the finalizer on the record
WorkDeletedFinalizerKept ==
    \E k \in RequestKeys :
        /\ Finalized(k)
        /\ requests[k].deleting
        /\ run[k].pc = "idle"
        /\ requestResult[k] = Result(RequeueAfterSeconds, "none")
        /\ ~HasWork(k)

\* a step that is an invocation of PromiseReconciler.Reconcile
Reconciles == lastReconciled'.tick # lastReconciled.tick

\* the Promise the invocation of this step read
Reconciled(p) ==
    /\ p \in promises
    /\ PromiseKey(p) = lastReconciled'.key
    /\ lastReconciled'.at \notin {"none", "get"}

\* C4: a bootstrap reconciliation that finds the Promise's type unresolved
\* by the REST mapper creates no Work, no RBAC object and no service
\* account, registers no reconciler and returns RequeueAfter 5 s with no
\* error; it goes past the gate only with the type resolved.
TypePropagationGate ==
    [][\A p \in Promises :
          (Reconciles /\ Reconciled(p) /\ p.xaasCrd.decodes)
          => IF CrdGvk(p.xaasCrd) \notin restMappings
             THEN /\ UNCHANGED <<works, clusterRoles, clusterRoleBindings,
                                 serviceAccounts, controllers>>
                  /\ promiseResult' = [requeueAfter |-> 5, err |-> "none"]
             ELSE promiseResult'.requeueAfter = 0]_vars

\* a reconciliation was held at the gate after submitting the type
HeldAtGate ==
    /\ lastReconciled.at = "gate"
    /\ promiseResult.requeueAfter = 5
    /\ crds # {}
    /\ restMappings = {}

\* the registrations of the kind a Promise declares
RegistrationsOf(p) == Cardinality(ControllersOf(p.xaasCrd.kind))

\* C5: reconciling a Promise again, right after a reconciliation of it on a
\* healthy store, leaves the API types, the Works, the RBAC objects, the
\* service accounts and the registrations as they were; the kind of a
\* Promise whose Work exists has exactly one registration, and no kind has
\* more than one.
IdempotentBootstrap ==
    [][/\ (/\ Reconciles
           /\ lastReconciled.healthy
           /\ lastReconciled'.key = lastReconciled.key)
          => UNCHANGED <<crds, works, clusterRoles, clusterRoleBindings,
                         serviceAccounts, controllers>>
       /\ \A p \in promises' :
            /\ RegistrationsOf(p)' <= 1
            /\ (p.name \o "-" \o p.namespace) \in WorkNames'
                  => RegistrationsOf(p)' = 1]_vars

\* a Promise was reconciled twice in a row after its bootstrap completed
ReconciledAgain ==
    \E p \in promises :
        /\ lastReconciled.key = PromiseKey(p)
        /\ lastReconciled.again
        /\ RegistrationsOf(p) = 1
        /\ (p.name \o "-" \o p.namespace) \in WorkNames
        /\ Cardinality(clusterRoles) = 2

\* a lifecycle reconciler is registered for the kind of k
Registered(k) == ControllersOf(k.kind) # {}

\* C6: once the Promise is bootstrapped and a resource request of its kind
\* is in the store, on a healthy store with reconcile events and the
\* executor served fairly, the cleanup finalizer is added, an executor is
\* launched and a Work named <promise-name>-<promise-namespace>-
\* <request-namespace>-<request-name> comes to exist.
InstanceLiveness ==
    \A k \in RequestKeys :
        /\ (Registered(k) /\ requests[k].present) ~> Finalized(k)
        /\ (Registered(k) /\ requests[k].present) ~> (ExecutorsOf(k) # {})
        /\ (Registered(k) /\ requests[k].present) ~> HasWork(k)

\* the Work of the request is in the store, written by its executor
InstanceWorkWritten ==
    \E k \in RequestKeys :
        /\ HasWork(k)
        /\ Finalized(k)
        /\ \E pod \in ExecutorsOf(k) : pod.phase = "Succeeded"

\* the stores the lifecycle reconciler writes to
lifecycleStores == <<requests, works, configMaps, pods>>

\* C7: a reconciliation that reads a resource request marked for deletion
\* without the cleanup finalizer ends at once: no Work lookup, no Work
\* delete, no update of the record, the store unchanged.
NoFinalizerNoCleanup ==
    [][\A k \in RequestKeys :
          (/\ \E failed \in BOOLEAN : ReconcileGet(k, failed)
           /\ requests[k].present
           /\ requests[k].deleting
           /\ ~Finalized(k))
          => (run'[k].pc = "idle" /\ UNCHANGED lifecycleStores)]_vars

\* a request marked for deletion that never had the cleanup finalizer was
\* reconciled
UnfinalizedDeletionReconciled ==
    \E k \in RequestKeys :
        /\ requests[k].present
        /\ requests[k].deleting
        /\ requests[k].finalizers = {OtherFinalizer}
        /\ requestResult[k].requeueAfter = 5
        /\ k \in queue
        /\ pods = {}

\* C8: an executor Pod or a configuration record is created only by a
\* reconciliation that read the request, not marked for deletion, with the
\* cleanup finalizer on it; the reconciliation that read it without the
\* finalizer only updates the record with the finalizer added, and ends.
FinalizerPrecedesPipeline ==
    [][\A k \in RequestKeys :
          /\ (ExecutorsOf(k)' # {} /\ ExecutorsOf(k) = {})
                => (/\ run[k].pc = "createPod"
                    /\ ContainsFinalizer(run[k].obj, Finalizer(k.kind))
                    /\ ~run[k].obj.deleting)
          /\ (configMaps' # configMaps)
                => \E j \in RequestKeys :
                      /\ run[j].pc = "createConfigMap"
                      /\ ContainsFinalizer(run[j].obj, Finalizer(j.kind))
                      /\ ~run[j].obj.deleting
          /\ (/\ run[k].pc = "idle"
              /\ run'[k].pc # "idle"
              /\ ~requests[k].deleting
              /\ ~Finalized(k))
                => run'[k].pc = "addFinalizer"
          /\ (run[k].pc = "addFinalizer" /\ run'[k] # run[k])
                => (/\ run'[k].pc = "idle"
                    /\ UNCHANGED <<works, configMaps, pods>>
                    /\ requests'[k] \in
                          {requests[k],
                           [requests[k] EXCEPT
                              !.rv = @ + 1,
                              !.finalizers = @ \cup {Finalizer(k.kind)}]})]_vars

\* an executor and its configuration record exist for a finalized request
PipelineLaunched ==
    \E k \in RequestKeys :
        /\ ExecutorsOf(k) # {}
        /\ configMaps # {}
        /\ Finalized(k)

\* C9: a finalizer-adding update that fails, because the record was
\* modified after the reconciler read it or for any other reason, leaves
\* the stored record as it is, launches nothing, and makes Reconcile return
\* the error, upon which the substrate queues the key again.
StaleFinalizerWriteRejected ==
    [][\A k \in RequestKeys, failed \in BOOLEAN :
          (/\ AddFinalizerUpdate(k, failed)
           /\ failed \/ requests[k] # run[k].obj)
          => (/\ UNCHANGED lifecycleStores
              /\ run'[k].pc = "idle"
              /\ requestResult'[k].err # "none"
              /\ k \in queue')]_vars

\* the user marked the request for deletion between the read and the
\* update; the update was rejected and the finalizer is not on the record
ConflictAfterDeletion ==
    \E k \in RequestKeys :
        /\ requestResult[k].err = "conflict"
        /\ requests[k].present
        /\ requests[k].deleting
        /\ ~Finalized(k)
        /\ k \in queue

\* C10: the Work a bootstrap reconciliation creates is named
\* <promise-name>-<promise-namespace>, carries the Promise's clusterSelector
\* and the one-per-matching-cluster replicas sentinel, and its manifests are
\* the Promise's cluster-wide manifests, in order, nothing added or dropped.
PromiseWorkShape ==
    [][\A p \in Promises :
          (Reconciles /\ Reconciled(p) /\ lastReconciled'.at = "end")
          => /\ Cardinality(works' \ works) = 1
             /\ \A w \in works' \ works :
                   /\ w.name = p.name \o "-" \o p.namespace
                   /\ w.clusterSelector = p.clusterSelector
                   /\ w.replicas = "WorkerResourceReplicas"
                   /\ Len(w.manifests) = Len(p.workerClusterResources)
                   /\ \A i \in 1..Len(w.manifests) :
                         w.manifests[i] = p.workerClusterResources[i]]_vars

\* the Work of a Promise with three cluster-wide manifests is in the store
PromiseWorkCreated ==
    /\ lastReconciled.at = "end"
    /\ \E w \in works : Len(w.manifests) = 3

\* C11: the Work name identifies its producer: two Work names computed
\* for different producers, be they two resource requests or a resource
\* request and a Promise, differ.
WorkNameInjective ==
    \A a \in named, b \in named : a.name = b.name => a.producer = b.producer

\* the Work, the RBAC objects, the service account and one registration of
\* Promise p are in place
Bootstrapped(p) ==
    LET id == p.name \o "-" \o p.namespace IN
    /\ id \in WorkNames
    /\ {id \o "-promise-controller", id \o "-promise-pipeline"}
          \subseteq clusterRoles
    /\ {id \o "-promise-controller-binding", id \o "-promise-pipeline-binding"}
          \subseteq clusterRoleBindings
    /\ (id \o "-sa") \in serviceAccounts
    /\ RegistrationsOf(p) = 1

\* C12: a reconciliation of a Promise that finds its type queryable and
\* meets no store failure leaves the Promise bootstrapped, whatever an
\* earlier reconciliation of it left undone.
PartialBootstrapHeals ==
    [][\A p \in Promises :
          (/\ Reconciles
           /\ Reconciled(p)
           /\ lastReconciled'.healthy
           /\ p.xaasCrd.decodes
           /\ ~gvkDoesNotExist(CrdGvk(p.xaasCrd)))
          => Bootstrapped(p)']_vars

WritesOnlyToken(k, token) ==
    /\ (run[k].pc = "addFinalizer" /\ requests'[k] # requests[k]
            /\ run'[k] # run[k])
          => /\ token \notin requests[k].finalizers
             /\ requests'[k].finalizers = requests[k].finalizers \cup {token}
    /\ (run[k].pc = "removeFinalizer" /\ requests'[k] # requests[k]
            /\ run'[k] # run[k])
          => /\ token \in requests[k].finalizers
             /\ IF requests'[k].present
                THEN requests'[k].finalizers = requests[k].finalizers \ {token}
                ELSE requests[k].finalizers = {token}
    /\ (run[k].pc \notin {"addFinalizer", "removeFinalizer"}
            /\ run'[k] # run[k])
          => requests'[k] = requests[k]

WorkGoneEndsTerminally ==
    [][\A k \in RequestKeys :
          (/\ run[k].pc = "removeFinalizer"
           /\ run[k].notFoundAt = "get"
           /\ run'[k] # run[k]
           /\ requests'[k] # requests[k])
          => /\ ~Finalized(k)'
             /\ requestResult'[k] = Result(NoRequeue, "none")]_vars

\* C16: when the Work lookup or the Work delete of the delete cascade fails
\* with an error other than not-found, the invocation ends there: the
\* record keeps its cleanup finalizer and is not updated, the Work is left
\* as it is, and the result carries RequeueAfter 5 seconds.
CascadeErrorRetries ==
    [][\A k \in RequestKeys :
          (DeleteWorkGet(k, TRUE) \/ DeleteWorkDelete(k, TRUE))
          => /\ requests' = requests
             /\ works' = works
             /\ run'[k].pc = "idle"
             /\ requestResult'[k] = Result(RequeueAfterSeconds, "error")
             /\ k \in queue']_vars

\* the Work delete of a finalized request marked for deletion failed: the
\* Work and the finalizer are still there and a retry is signalled
CascadeErrorSeen ==
    \E k \in RequestKeys :
        /\ Finalized(k)
        /\ requests[k].deleting
        /\ HasWork(k)
        /\ run[k].pc = "idle"
        /\ requestResult[k] = Result(5, "error")
        /\ k \in queue

\* C17: whatever store operations fail, PromiseReconciler.Reconcile returns
\* no error, and it returns a retry signal (of 5 seconds) exactly when it
\* read the Promise, decoded its schema and found the type not queryable.
BootstrapFailureSemantics ==
    [][Reconciles
          => /\ promiseResult'.err = "none"
             /\ promiseResult'.requeueAfter \in {0, 5}
             /\ promiseResult'.requeueAfter = 5
                   <=> \E p \in promises :
                          /\ Reconciled(p)
                          /\ p.xaasCrd.decodes
                          /\ CrdGvk(p.xaasCrd) \notin restMappings]_vars

\* a reconciliation ran to its end with creates failing, and returned
\* neither an error nor a retry signal
FailuresSwallowed ==
    /\ lastReconciled.at = "end"
    /\ ~lastReconciled.healthy
    /\ clusterRoles = {}
    /\ serviceAccounts = {}
    /\ promiseResult = [requeueAfter |-> 0, err |-> "none"]

\* C18: a reconciliation whose CRD create fails with an error other than
\* already-exists ends at that step: no Work, no RBAC object, no service
\* account, no registration, no retry signal.
CrdFailureEndsReconcile ==
    [][(Reconciles /\ lastReconciled'.crd = "error")
          => /\ UNCHANGED <<crds, works, clusterRoles, clusterRoleBindings,
                            serviceAccounts, controllers>>
             /\ lastReconciled'.at \notin {"gate", "work", "end"}
             /\ promiseResult' = [requeueAfter |-> 0, err |-> "none"]]_vars

\* C19: the executor of a resource request runs the reader, then every
\* pipeline image its Promise declares, in the declared order, then the
\* writer.
PipelineStageOrder ==
    \A pod \in pods :
        \E p \in promises :
            /\ pod.promiseId = p.name \o "-" \o p.namespace
            /\ Stages(pod) = <<"reader">> \o p.xaasRequestPipeline \o <<"writer">>

\* a step in which the launch of k issues its ConfigMap create
ConfigMapStep(k) == run[k].pc = "createConfigMap" /\ run'[k] # run[k]

\* a step in which the launch of k issues its Pod create
PodStep(k) == run[k].pc = "createPod" /\ run'[k] # run[k]

\* the Promise that declares the kind of k
PromisesOf(k) == {p \in promises : p.xaasCrd.kind = k.kind}

\* C20 as stated: every launch whose creates do not fail creates exactly
\* one ConfigMap and exactly one Pod, the Pod labelled with the composite
\* identifier of the launching request.
OneConfigMapAndPodPerLaunch ==
    [][\A k \in RequestKeys :
          /\ CreateConfigMap(k, FALSE)
                => Cardinality(configMaps' \ configMaps) = 1
          /\ (\E uuid \in ShortUuids : CreatePod(k, uuid, FALSE))
                => /\ Cardinality(pods' \ pods) = 1
                   /\ \A pod \in pods' \ pods :
                         pod.requestId \in InstanceWorkNames(k)]_vars

\* C20, amended: the ConfigMap belongs to the Promise, not to the request:
\* a launch creates the ConfigMap cluster-selectors-<promise-id> holding
\* the Promise's selectors when the store has none by that name and none
\* otherwise, so the launches of all requests of a Promise share one
\* ConfigMap; a launch creates at most one Pod, exactly one when its create
\* does not fail and the generated Pod name is unused, and the Pod is
\* labelled with the composite identifier of the launching request.
LaunchSideEffects ==
    [][\A k \in RequestKeys :
          /\ ConfigMapStep(k)
                => /\ pods' = pods
                   /\ \A c \in configMaps' \ configMaps :
                         \E p \in PromisesOf(k) :
                            /\ c.name = "cluster-selectors-" \o p.name
                                            \o "-" \o p.namespace
                            /\ c.name \notin {d.name : d \in configMaps}
                            /\ ParseLabels(c.selectors) = p.clusterSelector
                   /\ Cardinality(configMaps' \ configMaps) <= 1
                   /\ configMaps \subseteq configMaps'
          /\ CreateConfigMap(k, FALSE)
                => (configMaps' = configMaps <=> configMaps # {})
          /\ PodStep(k)
                => /\ configMaps' = configMaps
                   /\ pods \subseteq pods'
                   /\ Cardinality(pods' \ pods) <= 1
                   /\ \A pod \in pods' \ pods :
                         /\ pod.requestId \in InstanceWorkNames(k)
                         /\ pod.name \notin PodNames
          /\ \A uuid \in ShortUuids :
                (CreatePod(k, uuid, FALSE)
                   /\ \A pod \in pods : pod.name # PodFor(ControllerOf(k), k, uuid).name)
                => Cardinality(pods' \ pods) = 1
          /\ (~ConfigMapStep(k) /\ run'[k] # run[k]) => configMaps' = configMaps
          /\ (~PodStep(k) /\ run'[k] # run[k]) => pods' = pods]_vars

\* two requests of one Promise were launched: each has its executor, and
\* the store holds the one ConfigMap of the Promise
TwoLaunchesOneConfigMap ==
    /\ Cardinality(configMaps) = 1
    /\ \E j \in RequestKeys, k \in RequestKeys :
          /\ j # k
          /\ ExecutorsOf(j) # {}
          /\ ExecutorsOf(k) # {}
          /\ ExecutorsOf(j) \cap ExecutorsOf(k) = {}

\* the phases an executor Pod goes through
PodPhases == {"Pending", "Running", "Succeeded", "Failed"}

TokensChanged(old, new) ==
    (old.finalizers \ new.finalizers) \cup (new.finalizers \ old.finalizers)

\* C22: a step of the lifecycle reconciler that changes the stored record of
\* a resource request is an update of the record it read, which is the
\* record the store held: it adds the cleanup finalizer on the path of a
\* request not marked for deletion or removes it in the delete cascade,
\* leaves every other finalizer token and the deletion mark as they were,
\* and touches no other request; the record leaves the store only when the
\* store drops a record marked for deletion whose last finalizer went.
OnlyTouchesFinalizer ==
    [][\A k \in RequestKeys :
          (run'[k] # run[k] /\ requests' # requests)
          => /\ \A j \in RequestKeys \ {k} : requests'[j] = requests[j]
             /\ run[k].pc \in {"addFinalizer", "removeFinalizer"}
             /\ run[k].obj = requests[k]
             /\ requests'[k].rv = requests[k].rv + 1
             /\ run[k].pc = "addFinalizer"
                   => /\ ~run[k].obj.deleting
                      /\ requests'[k].present
                      /\ requests'[k].finalizers =
                            run[k].obj.finalizers \cup {Finalizer(k.kind)}
             /\ run[k].pc = "removeFinalizer"
                   => /\ run[k].obj.deleting
                      /\ Finalizer(k.kind) \in run[k].obj.finalizers
                      /\ requests'[k].present
                            <=> run[k].obj.finalizers # {Finalizer(k.kind)}
             /\ requests'[k].present
                   => /\ TokensChanged(run[k].obj, requests'[k]) = {Finalizer(k.kind)}
                      /\ requests'[k].deleting = run[k].obj.deleting]_vars

\* the reconciler added its token next to another controller's and took it
\* off again in the delete cascade: the other token is still on the record
OtherTokenKept ==
    \E k \in RequestKeys :
        /\ requests[k].present
        /\ requests[k].deleting
        /\ requests[k].finalizers = {OtherFinalizer}
        /\ requestResult[k] = Result(RequeueAfterSeconds, "notFound")

\* C23: the invocation that reads a resource request marked for deletion
\* without the cleanup finalizer returns no error and no retry signal, and
\* leaves the key out of the work queue.
UnfinalizedDeletionTerminal ==
    [][\A k \in RequestKeys :
          (/\ ReconcileGet(k, FALSE)
           /\ requests[k].present
           /\ requests[k].deleting
           /\ ~Finalized(k))
          => (/\ requestResult'[k] = Result(NoRequeue, "none")
              /\ k \notin queue')]_vars

\* C24: a reconciliation of a request that already has an executor goes on
\* to launch exactly when its Pod list does not observe that executor (the
\* list is stale or fails); the launch is entered only from the Pod list,
\* and an executor is added only by the Pod create of such a launch, one at
\* a time.  With stale lists occurring, two executors carrying the label of
\* one request are reachable: DuplicateExecutors.
DuplicateLaunchRace ==
    [][\A k \in RequestKeys :
          /\ \A listing \in {"ok", "stale", "error"} :
                (PipelineCheck(k, listing) /\ ExecutorsOf(k) # {})
                => (run'[k].pc = "createConfigMap" <=> listing # "ok")
          /\ (run'[k].pc = "createConfigMap" /\ run[k].pc # "createConfigMap")
                => (run[k].pc = "listPods" /\ ~run[k].obj.deleting
                    /\ ContainsFinalizer(run[k].obj, Finalizer(k.kind)))
          /\ (run'[k].pc = "createPod" /\ run[k].pc # "createPod")
                => run[k].pc = "createConfigMap"
          /\ ExecutorsOf(k)' # ExecutorsOf(k)
                => \/ /\ run[k].pc = "createPod"
                      /\ ExecutorsOf(k) \subseteq ExecutorsOf(k)'
                      /\ Cardinality(ExecutorsOf(k)') = Cardinality(ExecutorsOf(k)) + 1
                   \/ /\ run'[k] = run[k]
                      /\ {pod.name : pod \in ExecutorsOf(k)'}
                            = {pod.name : pod \in ExecutorsOf(k)}]_vars

\* two executor Pods carry the identifier of one finalized request that is
\* not marked for deletion
DuplicateExecutors ==
    \E k \in RequestKeys :
        /\ Finalized(k)
        /\ ~requests[k].deleting
        /\ \E p1 \in pods, p2 \in pods :
              /\ p1.name # p2.name
              /\ p1.requestId = p2.requestId
              /\ p1.requestId \in InstanceWorkNames(k)

\* what lines 156-286 add to: RBAC objects, service accounts, registrations
provisioned == <<clusterRoles, clusterRoleBindings, serviceAccounts, controllers>>

\* C25: an invocation of PromiseReconciler.Reconcile adds an RBAC object, a
\* service account or a registration only if it is the invocation that
\* created the Promise's Work; an invocation that finds the Work in the
\* store, or that creates no Work, changes none of them, so while the Work
\* stays the registrations never grow, also after a restart emptied them.
RegistrationOnlyOnFreshWork ==
    [][/\ (Reconciles /\ provisioned' # provisioned)
          => \E p \in promises :
                /\ PromiseKey(p) = lastReconciled'.key
                /\ (p.name \o "-" \o p.namespace) \notin WorkNames
                /\ (p.name \o "-" \o p.namespace) \in WorkNames'
                /\ lastReconciled'.at = "end"
       /\ \A p \in promises :
            (Reconciles /\ Reconciled(p)
                /\ (p.name \o "-" \o p.namespace) \in WorkNames)
            => /\ UNCHANGED <<works, provisioned>>
               /\ lastReconciled'.at \in {"gate", "work"}
       /\ (Reconciles /\ works' = works) => UNCHANGED provisioned
       /\ (\A p \in promises : (p.name \o "-" \o p.namespace) \in WorkNames)
            => Len(controllers') <= Len(controllers)]_vars

\* after a restart the Promise, whose Work is in the store, was reconciled
\* on a healthy store and no lifecycle reconciler is registered
RegistrationsLostForGood ==
    /\ controllers = <<>>
    /\ \E p \in promises :
          /\ (p.name \o "-" \o p.namespace) \in WorkNames
          /\ lastReconciled.key = PromiseKey(p)
          /\ lastReconciled.healthy
          /\ lastReconciled.at = "work"

\* the steps of Reconcile on the path of a request not marked for deletion
LaunchPath == {"addFinalizer", "listPods", "createConfigMap", "createPod"}

\* C26: an invocation that read the resource request marked for deletion
\* never is on the launch path: in none of its steps does it create a Pod or
\* a ConfigMap or put the cleanup finalizer on the record, whether or not
\* the request has an executor.
NoLaunchWhileDeleting ==
    [][\A k \in RequestKeys :
          /\ (/\ \E failed \in BOOLEAN : ReconcileGet(k, failed)
              /\ requests[k].present
              /\ requests[k].deleting)
                => /\ run'[k].pc \notin LaunchPath
                   /\ UNCHANGED <<requests, configMaps, pods>>
          /\ (run[k].pc # "idle" /\ run[k].obj.deleting /\ run'[k] # run[k])
                => /\ run[k].pc \notin LaunchPath
                   /\ run'[k].pc \notin LaunchPath
                   /\ UNCHANGED <<configMaps, pods>>
                   /\ Finalized(k)' => Finalized(k)]_vars

\* a request that was finalized and then deleted before any pipeline was
\* launched went through the delete cascade: its record is gone and there is
\* no Pod and no ConfigMap
DeletedBeforeLaunch ==
    \E k \in RequestKeys :
        /\ ~requests[k].present
        /\ requests[k].rv >= 4
        /\ run[k].pc = "idle"
        /\ requestResult[k] = Result(RequeueAfterSeconds, "notFound")
        /\ pods = {}
        /\ configMaps = {}

\* C27: a Pod list that fails is taken for "no pipeline has executed": the
\* invocation goes on to the launch whether or not the request has an
\* executor, the launch gets to its Pod create, and a Pod create that
\* succeeds under an unused name gives the request one executor more.
ListFailureLaunches ==
    [][\A k \in RequestKeys :
          /\ PipelineCheck(k, "error")
                => /\ run'[k].pc = "createConfigMap"
                   /\ UNCHANGED lifecycleStores
                   /\ UNCHANGED requestResult
          /\ (run[k].pc = "createConfigMap" /\ run'[k] # run[k])
                => run'[k].pc = "createPod"
          /\ \A uuid \in ShortUuids :
                (/\ CreatePod(k, uuid, FALSE)
                 /\ PodFor(ControllerOf(k), k, uuid).name \notin PodNames)
                => /\ ExecutorsOf(k) \subseteq ExecutorsOf(k)'
                   /\ Cardinality(ExecutorsOf(k)') = Cardinality(ExecutorsOf(k)) + 1]_vars

\* with Pod lists that never miss a Pod but can fail, a request has two
\* executors and the invocation that launched the second has returned
SecondExecutorAfterListFailure ==
    \E k \in RequestKeys :
        /\ Cardinality(ExecutorsOf(k)) = 2
        /\ run[k].pc = "idle"
        /\ requestResult[k] = Result(NoRequeue, "none")

\* C28: a ConfigMap create that fails changes nothing and the invocation
\* goes on to the Pod create; a Pod create that fails creates no Pod and
\* the invocation returns no error and no retry signal, leaving the work
\* queue as it was; an invocation starts only for a key taken from the work
\* queue, so nothing is launched until an event queues the key again.
LaunchFailureSwallowed ==
    [][\A k \in RequestKeys :
          /\ CreateConfigMap(k, TRUE)
                => /\ UNCHANGED lifecycleStores
                   /\ run'[k].pc = "createPod"
                   /\ UNCHANGED <<requestResult, queue>>
          /\ (\E uuid \in ShortUuids : CreatePod(k, uuid, TRUE))
                => /\ UNCHANGED lifecycleStores
                   /\ run'[k].pc = "idle"
                   /\ requestResult'[k] = Result(NoRequeue, "none")
                   /\ queue' = queue
          /\ (run[k].pc = "idle" /\ run'[k].pc # "idle")
                => (k \in queue /\ k \notin queue')
          /\ (run[k].pc = "idle" /\ run'[k].pc = "idle")
                => ExecutorsOf(k)' \subseteq
                      {[pod EXCEPT !.phase = ph] :
                          pod \in ExecutorsOf(k), ph \in PodPhases}]_vars

\* a launch created the ConfigMap and failed to create the Pod: the
\* finalized request has no executor, its invocation returned no error and
\* no retry, and its key is not in the work queue
LaunchFailedNoRetry ==
    \E k \in RequestKeys :
        /\ Finalized(k)
        /\ ~requests[k].deleting
        /\ configMaps # {}
        /\ pods = {}
        /\ run[k].pc = "idle"
        /\ requestResult[k] = Result(NoRequeue, "none")
        /\ k \notin queue
====
